---- MODULE Spec2Model ----
(***************************************************************************)
(* Model of the BolsaStreamlit dashboard: the parquet refresh and the      *)
(* memoized loaders (data_updater.py, graficos_unicos.py,                  *)
(* graficos_comparacion.py), the date filter (data_utils.py), the          *)
(* support/resistance detection and clustering (graficos_unicos.py) and    *)
(* the two-series ratio alignment (graficos_comparacion.py).               *)
(***************************************************************************)
EXTENDS Integers, Sequences, FiniteSets, TLC

VARIABLES
    \* ---- refresh / cache subsystem (one script run per session) ----
    file,          \* file[s]: what is on disk for parquet path s
    provider,      \* how many tables the data provider has served so far
    runs,          \* script runs started so far, over all sessions
    cache_unico,   \* st.cache_data store of graficos_unicos.cached_load_prices
    cache_comp,    \* st.cache_data store of graficos_comparacion.cached_load_prices
    pc,            \* pc[p]: where session p's script run stands
    selected,      \* selected[p]: the path chosen in the single-chart sidebar
    datos_nuevos,  \* datos_nuevos[p]: the table returned by extrae_datos_yf
    wpos,          \* wpos[p]: chunks session p's to_parquet has written so far
    success,       \* success[p]: the value returned by actualizar_datos_parquet
    pre_refresh,   \* pre_refresh[p]: file content when p's refresh was entered
    df,            \* df[p]: what the single-chart cached_load_prices returned
    files_comp,    \* files_comp[p]: <<file_one, file_two>> of the comparison tab
    dfs_comp,      \* dfs_comp[p]: <<df1, df2>> returned by the comparison loader
    \* ---- one call of a pure function of the pipeline ----
    called,        \* the function that has run ("none" before the call)
    args,          \* its arguments
    ret            \* what it returned

refreshVars == <<file, provider, runs, cache_unico, cache_comp, pc, selected,
                 datos_nuevos, wpos, success, pre_refresh, df, files_comp,
                 dfs_comp>>

callVars == <<called, args, ret>>

vars == <<refreshVars, callVars>>

----------------------------------------------------------------------------
(* Bounds *)
NSessions == 2
NSources == 2
NChunks == 2
MaxFetches == 2
MaxRuns == 3

Sessions == 1..NSessions
Sources == 1..NSources

----------------------------------------------------------------------------
(* Parquet files as the operating system sees them: a sequence of chunks   *)
(* (row groups) followed, once the writer is closed, by the footer.        *)

\* The table the provider serves as its v-th answer: NChunks row groups.
Table(v) == [i \in 1..NChunks |-> <<v, i>>]

Hole == <<0, 0>>

CompleteFile(rows) == [data |-> rows, footer |-> TRUE]

\* open(path, "wb"): the target is truncated before anything is written.
Truncated == [data |-> <<>>, footer |-> FALSE]

\* One write() of a chunk at the writer's own offset.
WriteAt(f, off, chunk) ==
    LET padded == [i \in 1..off |-> IF i <= Len(f.data) THEN f.data[i] ELSE Hole]
    IN  [data |-> IF off < Len(f.data)
                  THEN [f.data EXCEPT ![off + 1] = chunk]
                  ELSE Append(padded, chunk),
         footer |-> FALSE]

\* pd.read_parquet: a file without its footer cannot be read.
Readable(f) == f.footer

NoTable == [kind |-> "None", columns_ok |-> FALSE, rows |-> <<>>]
NoEntry == [hit |-> FALSE, rows |-> <<>>]
Entry(rows) == [hit |-> TRUE, rows |-> rows]
NoDf == [ok |-> FALSE, rows |-> <<>>]
Loaded(rows) == [ok |-> TRUE, rows |-> rows]

EmptyCache == [s \in Sources |-> NoEntry]

\* @st.cache_data lookup: a hit returns the stored value; a miss runs
\* load_prices on the file and stores the result; an exception is not cached.
CachedResult(cache, s) ==
    IF cache[s].hit THEN Loaded(cache[s].rows)
    ELSE IF Readable(file[s]) THEN Loaded(file[s].data)
    ELSE NoDf

CacheAfter(cache, s) ==
    IF cache[s].hit \/ ~Readable(file[s]) THEN cache
    ELSE [cache EXCEPT ![s] = Entry(file[s].data)]

----------------------------------------------------------------------------
(* One script run of app.py: graficos_unicos.render() and then             *)
(* graficos_comparacion.render().                                          *)

SessionsAtRest ==
    /\ file = [s \in Sources |-> CompleteFile(Table(0))]
    /\ provider = 0
    /\ runs = 0
    /\ cache_unico = EmptyCache
    /\ cache_comp = EmptyCache
    /\ pc = [p \in Sessions |-> "idle"]
    /\ selected = [p \in Sessions |-> 1]
    /\ datos_nuevos = [p \in Sessions |-> NoTable]
    /\ wpos = [p \in Sessions |-> 0]
    /\ success = [p \in Sessions |-> FALSE]
    /\ pre_refresh = [p \in Sessions |-> CompleteFile(Table(0))]
    /\ df = [p \in Sessions |-> NoDf]
    /\ files_comp = [p \in Sessions |-> <<1, 1>>]
    /\ dfs_comp = [p \in Sessions |-> <<NoDf, NoDf>>]

\* A rerun starts: the sidebar picks the ticker, the refresh button was
\* pressed or not.
StartRun(p) ==
    /\ pc[p] = "idle"
    /\ runs < MaxRuns
    /\ runs' = runs + 1
    /\ \E s \in Sources, button \in BOOLEAN :
          /\ selected' = [selected EXCEPT ![p] = s]
          /\ pre_refresh' = [pre_refresh EXCEPT ![p] = file[s]]
          /\ pc' = [pc EXCEPT ![p] = IF button THEN "fetch" ELSE "load"]
    /\ UNCHANGED <<file, provider, cache_unico, cache_comp, datos_nuevos, wpos,
                   success, df, files_comp, dfs_comp>>

\* actualizar_datos_parquet up to its column checks: extrae_datos_yf
\* answers None, a table without a required column, or a full table.
Fetch(p) ==
    /\ pc[p] = "fetch"
    /\ \/ /\ \E cols \in BOOLEAN :
                datos_nuevos' = [datos_nuevos EXCEPT ![p] =
                    IF cols THEN [kind |-> "table", columns_ok |-> FALSE,
                                  rows |-> Table(provider)]
                    ELSE NoTable]
          /\ success' = [success EXCEPT ![p] = FALSE]
          /\ pc' = [pc EXCEPT ![p] = "after_refresh"]
          /\ UNCHANGED provider
       \/ /\ provider < MaxFetches
          /\ provider' = provider + 1
          /\ datos_nuevos' = [datos_nuevos EXCEPT ![p] =
                [kind |-> "table", columns_ok |-> TRUE, rows |-> Table(provider + 1)]]
          /\ pc' = [pc EXCEPT ![p] = "open"]
          /\ UNCHANGED success
    /\ UNCHANGED <<runs, file, cache_unico, cache_comp, selected, wpos, pre_refresh,
                   df, files_comp, dfs_comp>>

\* optimize_dtypes and the opening of the target by to_parquet: either
\* raises before the file is touched, or the file is truncated.
OpenWrite(p) ==
    /\ pc[p] = "open"
    /\ \/ /\ success' = [success EXCEPT ![p] = FALSE]
          /\ pc' = [pc EXCEPT ![p] = "after_refresh"]
          /\ UNCHANGED file
       \/ /\ file' = [file EXCEPT ![selected[p]] = Truncated]
          /\ pc' = [pc EXCEPT ![p] = "writing"]
          /\ UNCHANGED success
    /\ wpos' = [wpos EXCEPT ![p] = 0]
    /\ UNCHANGED <<runs, provider, cache_unico, cache_comp, selected, datos_nuevos,
                   pre_refresh, df, files_comp, dfs_comp>>

\* to_parquet writes the next row group.
WriteChunk(p) ==
    /\ pc[p] = "writing"
    /\ wpos[p] < Len(datos_nuevos[p].rows)
    /\ file' = [file EXCEPT ![selected[p]] =
                  WriteAt(@, wpos[p], datos_nuevos[p].rows[wpos[p] + 1])]
    /\ wpos' = [wpos EXCEPT ![p] = @ + 1]
    /\ UNCHANGED <<runs, provider, cache_unico, cache_comp, pc, selected, datos_nuevos,
                   success, pre_refresh, df, files_comp, dfs_comp>>

\* to_parquet raises while writing (disk full, I/O error): the except
\* branch prints and returns False; nothing restores the file.
WriteFail(p) ==
    /\ pc[p] = "writing"
    /\ success' = [success EXCEPT ![p] = FALSE]
    /\ pc' = [pc EXCEPT ![p] = "after_refresh"]
    /\ UNCHANGED <<runs, file, provider, cache_unico, cache_comp, selected, datos_nuevos,
                   wpos, pre_refresh, df, files_comp, dfs_comp>>

\* to_parquet writes the footer and closes; the refresh returns True.
CloseWrite(p) ==
    /\ pc[p] = "writing"
    /\ wpos[p] = Len(datos_nuevos[p].rows)
    /\ file' = [file EXCEPT ![selected[p]] =
                  [data |-> [i \in 1..(IF Len(@.data) > wpos[p] THEN Len(@.data) ELSE wpos[p])
                               |-> IF i <= Len(@.data) THEN @.data[i] ELSE Hole],
                   footer |-> TRUE]]
    /\ success' = [success EXCEPT ![p] = TRUE]
    /\ pc' = [pc EXCEPT ![p] = "after_refresh"]
    /\ UNCHANGED <<runs, provider, cache_unico, cache_comp, selected, datos_nuevos,
                   wpos, pre_refresh, df, files_comp, dfs_comp>>

\* render: on success cached_load_prices.clear() of the single-chart
\* loader, then the reload; on failure only messages.
AfterRefresh(p) ==
    /\ pc[p] = "after_refresh"
    /\ IF success[p]
       THEN /\ cache_unico' = CacheAfter(EmptyCache, selected[p])
            /\ df' = [df EXCEPT ![p] = CachedResult(EmptyCache, selected[p])]
            /\ pc' = [pc EXCEPT ![p] =
                        IF CachedResult(EmptyCache, selected[p]).ok
                        THEN "load" ELSE "comp"]
       ELSE /\ pc' = [pc EXCEPT ![p] = "load"]
            /\ UNCHANGED <<cache_unico, df>>
    /\ UNCHANGED <<runs, file, provider, cache_comp, selected, datos_nuevos, wpos,
                   success, pre_refresh, files_comp, dfs_comp>>

\* render: df, date_col = cached_load_prices(selected)
LoadUnico(p) ==
    /\ pc[p] = "load"
    /\ df' = [df EXCEPT ![p] = CachedResult(cache_unico, selected[p])]
    /\ cache_unico' = CacheAfter(cache_unico, selected[p])
    /\ pc' = [pc EXCEPT ![p] = "comp"]
    /\ UNCHANGED <<runs, file, provider, cache_comp, selected, datos_nuevos, wpos,
                   success, pre_refresh, files_comp, dfs_comp>>

\* graficos_comparacion.render: two distinct files, both loaded through
\* the comparison tab's own memoized loader.
LoadComp(p) ==
    /\ pc[p] = "comp"
    /\ \E f1 \in Sources, f2 \in Sources :
          /\ f1 # f2
          /\ files_comp' = [files_comp EXCEPT ![p] = <<f1, f2>>]
          /\ LET r1 == CachedResult(cache_comp, f1)
                 c1 == CacheAfter(cache_comp, f1)
             IN  IF r1.ok
                 THEN /\ dfs_comp' = [dfs_comp EXCEPT ![p] = <<r1, CachedResult(c1, f2)>>]
                      /\ cache_comp' = CacheAfter(c1, f2)
                 ELSE /\ dfs_comp' = [dfs_comp EXCEPT ![p] = <<NoDf, NoDf>>]
                      /\ cache_comp' = c1
    /\ pc' = [pc EXCEPT ![p] = "done"]
    /\ UNCHANGED <<runs, file, provider, cache_unico, selected, datos_nuevos, wpos,
                   success, pre_refresh, df>>

\* The script run ends; the session waits for the next interaction.
EndRun(p) ==
    /\ pc[p] = "done"
    /\ pc' = [pc EXCEPT ![p] = "idle"]
    /\ selected' = [selected EXCEPT ![p] = 1]
    /\ datos_nuevos' = [datos_nuevos EXCEPT ![p] = NoTable]
    /\ wpos' = [wpos EXCEPT ![p] = 0]
    /\ success' = [success EXCEPT ![p] = FALSE]
    /\ pre_refresh' = [pre_refresh EXCEPT ![p] = CompleteFile(Table(0))]
    /\ df' = [df EXCEPT ![p] = NoDf]
    /\ files_comp' = [files_comp EXCEPT ![p] = <<1, 1>>]
    /\ dfs_comp' = [dfs_comp EXCEPT ![p] = <<NoDf, NoDf>>]
    /\ UNCHANGED <<runs, file, provider, cache_unico, cache_comp>>

\* No pure-function call is under study while the sessions run.
InitRefresh ==
    /\ SessionsAtRest
    /\ called = "none"
    /\ args = <<>>
    /\ ret = <<>>

NextRefresh ==
    \E p \in Sessions :
      /\ UNCHANGED callVars
      /\
        \/ StartRun(p)
        \/ Fetch(p)
        \/ OpenWrite(p)
        \/ WriteChunk(p)
        \/ WriteFail(p)
        \/ CloseWrite(p)
        \/ AfterRefresh(p)
        \/ LoadUnico(p)
        \/ LoadComp(p)
        \/ EndRun(p)

SpecRefresh == InitRefresh /\ [][NextRefresh]_vars

----------------------------------------------------------------------------
(* Refresh: claims C1, C2, C3 *)

\* The refresh of p is between the return of its fetch and the completion
\* of its write.
InFlight(p) == pc[p] \in {"open", "writing"}

\* C1: a refresh is all-or-nothing on the stored series. When
\* actualizar_datos_parquet has returned, the file holds exactly its
\* pre-refresh content or exactly the complete newly fetched series, and it
\* holds the pre-refresh content whenever the refresh returned False. Stated
\* for the executions in which this is the only script run ever started, so
\* that no other writer is involved.
C1_RefreshAllOrNothing ==
    \A p \in Sessions :
        (pc[p] = "after_refresh" /\ runs = 1) =>
            /\ \/ file[selected[p]] = pre_refresh[p]
               \/ file[selected[p]] = CompleteFile(datos_nuevos[p].rows)
            /\ ~success[p] => file[selected[p]] = pre_refresh[p]

\* C2: after a successful refresh of a source, the next load of that source
\* through any memoized loader returns the series of the rewritten file.
\* Checked at the end of the script run that refreshed, while the file still
\* holds what that refresh wrote: the single-chart load and every
\* comparison-tab load of the refreshed path returned the new series.
C2_EveryLoaderFreshAfterRefresh ==
    \A p \in Sessions :
        (/\ pc[p] = "done"
         /\ success[p]
         /\ file[selected[p]] = CompleteFile(datos_nuevos[p].rows)) =>
            /\ df[p].ok => df[p].rows = datos_nuevos[p].rows
            /\ \A i \in 1..2 :
                  (files_comp[p][i] = selected[p] /\ dfs_comp[p][i].ok) =>
                      dfs_comp[p][i].rows = datos_nuevos[p].rows

\* C3: refreshes of the same source are serialized: never are two sessions
\* both between fetch and end of write on the same parquet file.
C3_RefreshesSerializedPerSource ==
    \A p \in Sessions, q \in Sessions :
        (p # q /\ InFlight(p) /\ InFlight(q)) => selected[p] # selected[q]

----------------------------------------------------------------------------
(* Date-range filter (data_utils.filter_by_date)                           *)
(*                                                                         *)
(* Timestamps are counted in ticks; a second has TicksPerSecond ticks (the *)
(* sub-second resolution of a pandas Timestamp) and a day SecondsPerDay    *)
(* seconds. A calendar date is a day number; pd.to_datetime(date) is its   *)
(* midnight.                                                               *)

TicksPerSecond == 2
SecondsPerDay == 3
NDays == 2
MaxRows == 3

TicksPerDay == SecondsPerDay * TicksPerSecond
Days == 0..(NDays - 1)
Ticks == 0..(NDays * TicksPerDay - 1)

to_datetime(day) == day * TicksPerDay

\* The mutant of filter_by_date that forgets to extend the end to the last
\* second of the final day.
filter_by_date_midnight(frame, start, end) ==
    LET start_ts == to_datetime(start)
        end_ts == to_datetime(end)
        mask(row) == row.Date >= start_ts /\ row.Date <= end_ts
    IN  SelectSeq(frame, mask)

filter_by_date(frame, start, end) ==
    LET start_ts == to_datetime(start)
        end_ts == to_datetime(end) + TicksPerDay - TicksPerSecond
        mask(row) == row.Date >= start_ts /\ row.Date <= end_ts
    IN  SelectSeq(frame, mask)

\* The series load_prices hands over: rows sorted by timestamp (equal
\* timestamps may repeat), each row known by its index label.
RECURSIVE SortedStamps(_, _)
SortedStamps(n, stamps) ==
    IF n = 0 THEN {<<>>}
    ELSE {Append(st[1], st[2]) :
            st \in {x \in SortedStamps(n - 1, stamps) \X stamps :
                       Len(x[1]) = 0 \/ x[1][Len(x[1])] <= x[2]}}

FrameOf(stamps) == [i \in 1..Len(stamps) |-> [idx |-> i, Date |-> stamps[i]]]

InitFilter ==
    /\ SessionsAtRest
    /\ called = "none"
    /\ ret = <<>>
    /\ \E n \in 0..MaxRows : \E stamps \in SortedStamps(n, Ticks) :
       \E start \in Days, end \in Days :
          /\ start <= end
          /\ args = [df |-> FrameOf(stamps), start |-> start, end |-> end]

\* render: filtered = filter_by_date(df, date_col, start_date, end_date)
FilterStep ==
    /\ called = "none"
    /\ called' = "filter_by_date"
    /\ ret' = filter_by_date(args.df, args.start, args.end)
    /\ UNCHANGED args
    /\ UNCHANGED refreshVars

SpecFilter == InitFilter /\ [][FilterStep]_vars

(* Claim C4 *)

DayOf(t) == t \div TicksPerDay

\* t lies between start 00:00:00 and end 23:59:59, both included.
InDateRange(t, start, end) ==
    /\ start <= DayOf(t)
    /\ DayOf(t) <= end
    /\ (DayOf(t) = end) => (t % TicksPerDay) <= (SecondsPerDay - 1) * TicksPerSecond

\* C4: filter_by_date returns exactly the rows with start 00:00:00 <= t <=
\* end 23:59:59, in their original order; an empty result is a plain empty
\* frame.
C4_FilterExactInclusiveRange ==
    called = "filter_by_date" =>
        /\ \A k \in 1..Len(ret) :
              /\ ret[k].idx \in 1..Len(args.df)
              /\ ret[k] = args.df[ret[k].idx]
              /\ k > 1 => ret[k - 1].idx < ret[k].idx
        /\ \A i \in 1..Len(args.df) :
              (\E k \in 1..Len(ret) : ret[k].idx = i)
                  <=> InDateRange(args.df[i].Date, args.start, args.end)

\* A row of the end day after midnight is kept, a row past 23:59:59 of the
\* end day is dropped.
C4_Witness ==
    /\ called = "filter_by_date"
    /\ \E k \in 1..Len(ret) : ret[k].Date > to_datetime(args.end)
    /\ \E i \in 1..Len(args.df) :
          /\ DayOf(args.df[i].Date) = args.end
          /\ \A k \in 1..Len(ret) : ret[k].idx # i

----------------------------------------------------------------------------
(* Pivot detection (graficos_unicos.detect_support_resistance_pivots)      *)
(*                                                                         *)
(* Prices are integers (hundredths of a price unit). A bar of height h has *)
(* High = PriceMid + h * PriceStep and Low = PriceMid - h * PriceStep, so  *)
(* that the highs and the lows of the windows both range over every        *)
(* sequence of NHeights values while Low <= High in every bar.             *)

PriceMid == 10000
PriceStep == 50
NHeights == 3
MaxBars == 6
MaxOrder == 2
DefaultOrder == 5
MinLookback == 10

Bar(h) == [High |-> PriceMid + h * PriceStep, Low |-> PriceMid - h * PriceStep]

Column(window, col) == [i \in 1..Len(window) |-> window[i][col]]

\* np.take(data, k, mode="clip"): positions count from 0; a position outside
\* the array is moved to the nearest end.
Take(data, k) ==
    data[(IF k < 0 THEN 0 ELSE IF k > Len(data) - 1 THEN Len(data) - 1 ELSE k) + 1]

\* The mutant of Compare that lets a tie pass (np.greater_equal,
\* np.less_equal).
CompareOrEqual(comparator, a, b) ==
    IF comparator = "greater" THEN a >= b ELSE a <= b

\* np.greater / np.less
Compare(comparator, a, b) ==
    IF comparator = "greater" THEN a > b ELSE a < b

\* scipy.signal.argrelextrema(data, comparator, order=order), whose mode
\* defaults to "clip": the positions, ascending, at which data compares
\* true against the entries shift = 1..order places to either side.
argrelextrema(data, comparator, order) ==
    LET locs == [i \in 1..Len(data) |-> i - 1]
        results(i) ==
            \A shift \in 1..order :
                /\ Compare(comparator, Take(data, i), Take(data, i + shift))
                /\ Compare(comparator, Take(data, i), Take(data, i - shift))
    IN  SelectSeq(locs, results)

\* Series.iloc[positions]
iloc(series, positions) == [k \in 1..Len(positions) |-> series[positions[k] + 1]]

detect_support_resistance_pivots(high_prices, low_prices, order) ==
    LET max_idx == argrelextrema(high_prices, "greater", order)
        min_idx == argrelextrema(low_prices, "less", order)
    IN  [supports |-> iloc(low_prices, min_idx),
         resistances |-> iloc(high_prices, max_idx),
         min_idx |-> min_idx,
         max_idx |-> max_idx]

\* Windows of 4 * DefaultOrder + 1 = 21 bars whose bar at position
\* 2 * DefaultOrder = 10 is higher than every other bar: all other bars
\* level ("flat"), rising to the peak and falling after it ("tent"), and
\* level with a second, lower bump at position 3 ("bump").
ScenarioBars == 4 * DefaultOrder + 1
PeakPos == 2 * DefaultOrder

ScenarioHeight(shape, i) ==
    IF i = PeakPos THEN PeakPos + 2
    ELSE IF shape = "flat" THEN 1
    ELSE IF shape = "tent" THEN (IF i < PeakPos THEN i + 1 ELSE 2 * PeakPos - i + 1)
    ELSE IF i = 3 THEN 2 ELSE 1

ScenarioWindows ==
    {[k \in 1..ScenarioBars |-> Bar(ScenarioHeight(shape, k - 1))] :
        shape \in {"flat", "tent", "bump"}}

Windows == UNION {[1..n -> {Bar(h) : h \in 1..NHeights}] : n \in 1..MaxBars}

\* DataFrame.tail(n)
tail(frame, n) ==
    IF n >= Len(frame) THEN frame ELSE SubSeq(frame, Len(frame) - n + 1, Len(frame))

\* The filtered frames the sidebar lets through: the lookback input has
\* min_value 10, so a frame has at least MinLookback bars. Here MaxBars
\* free bars are followed by level bars up to MinLookback + 1 bars.
LookbackFrames ==
    {[k \in 1..(MinLookback + 1) |-> IF k <= MaxBars THEN w[k] ELSE Bar(1)] :
        w \in [1..MaxBars -> {Bar(h) : h \in 1..NHeights}]}

InitPivots ==
    /\ SessionsAtRest
    /\ called = "none"
    /\ ret = <<>>
    /\ \/ \E w \in Windows, order \in 1..MaxOrder :
             args = [window |-> w, order |-> order]
       \/ \E frame \in LookbackFrames, order \in (1..MaxOrder) \cup {DefaultOrder} :
             args = [window |-> tail(frame, MinLookback), order |-> order]
       \/ \E w \in ScenarioWindows :
             args = [window |-> w, order |-> DefaultOrder]

\* render, "Pivots Locales": detect_support_resistance_pivots on the High
\* and Low columns of the lookback window.
DetectStep ==
    /\ called = "none"
    /\ called' = "detect_support_resistance_pivots"
    /\ ret' = detect_support_resistance_pivots(
                 Column(args.window, "High"), Column(args.window, "Low"), args.order)
    /\ UNCHANGED args
    /\ UNCHANGED refreshVars

SpecPivots == InitPivots /\ [][DetectStep]_vars

(* Claims C5, C6 *)

Range(seq) == {seq[k] : k \in 1..Len(seq)}

\* Position i has `order` neighbours on both sides in a window of n bars.
HasNeighbours(i, n, order) == order <= i /\ i <= n - 1 - order

\* C5: no bar without pivot_order neighbours on both sides is reported as a
\* pivot, for highs and lows; so a window of fewer than 2 * pivot_order + 1
\* bars has no pivots. Stated for the windows render can pass, which have at
\* least MinLookback bars.
C5_NoPivotNearWindowEdge ==
    (called = "detect_support_resistance_pivots" /\ Len(args.window) >= MinLookback) =>
        /\ \A i \in Range(ret.max_idx) \cup Range(ret.min_idx) :
              HasNeighbours(i, Len(args.window), args.order)
        /\ Len(args.window) < 2 * args.order + 1 =>
              (ret.max_idx = <<>> /\ ret.min_idx = <<>>)

\* Every bar within `order` places of position i, i excluded.
Around(i, order) == ((i - order)..(i + order)) \ {i}

\* Position i is the only one whose value is strictly above both adjacent
\* values.
SingleLocalMaximum(data, i) ==
    \A j \in 1..(Len(data) - 2) :
        (data[j + 1] > data[j] /\ data[j + 1] > data[j + 2]) => j = i

\* C6: for a bar with pivot_order neighbours on both sides, its high is a
\* resistance candidate iff it is strictly above the high of every bar
\* within pivot_order places on either side, and its low a support candidate
\* iff strictly below every such low; the candidates are the values at those
\* positions; and a window of 21 bars whose single local maximum is at
\* position 10 gives, with pivot_order 5, exactly that one resistance.
C6_InteriorPivotIffStrictExtremum ==
    called = "detect_support_resistance_pivots" =>
        LET high == Column(args.window, "High")
            low == Column(args.window, "Low")
            n == Len(args.window)
        IN  /\ \A i \in 0..(n - 1) :
                  HasNeighbours(i, n, args.order) =>
                      /\ i \in Range(ret.max_idx) <=>
                            \A j \in Around(i, args.order) : high[i + 1] > high[j + 1]
                      /\ i \in Range(ret.min_idx) <=>
                            \A j \in Around(i, args.order) : low[i + 1] < low[j + 1]
            /\ Len(ret.resistances) = Len(ret.max_idx)
            /\ Len(ret.supports) = Len(ret.min_idx)
            /\ \A k \in 1..Len(ret.max_idx) : ret.resistances[k] = high[ret.max_idx[k] + 1]
            /\ \A k \in 1..Len(ret.min_idx) : ret.supports[k] = low[ret.min_idx[k] + 1]
            /\ (/\ n = ScenarioBars
                /\ args.order = DefaultOrder
                /\ SingleLocalMaximum(high, PeakPos)
                /\ \A j \in Around(PeakPos, DefaultOrder) : high[PeakPos + 1] > high[j + 1])
               => ret.resistances = <<high[PeakPos + 1]>>

\* The 21-bar window whose other bars are level, where every neighbour ties
\* with the next one: one resistance, the peak.
C6_Witness ==
    /\ called = "detect_support_resistance_pivots"
    /\ Len(args.window) = ScenarioBars
    /\ args.order = DefaultOrder
    /\ SingleLocalMaximum(Column(args.window, "High"), PeakPos)
    /\ args.window[1].High = args.window[2].High
    /\ ret.max_idx = <<PeakPos>>

----------------------------------------------------------------------------
(* Level clustering (graficos_unicos.cluster_levels)                       *)
(*                                                                         *)
(* threshold_percent is counted in tenths of a percent (the step of the    *)
(* "Umbral de agrupacion" slider); a mean is the exact fraction num / den. *)

MaxLevels == 4

Thresholds == {1, 5, 10}

Abs(x) == IF x < 0 THEN -x ELSE x

RECURSIVE Sum(_)
Sum(seq) == IF seq = <<>> THEN 0 ELSE Head(seq) + Sum(Tail(seq))

\* np.mean
Mean(cluster) == [num |-> Sum(cluster), den |-> Len(cluster)]

RECURSIVE Insert(_, _)
Insert(x, seq) ==
    IF seq = <<>> THEN <<x>>
    ELSE IF x <= Head(seq) THEN <<x>> \o seq
    ELSE <<Head(seq)>> \o Insert(x, Tail(seq))

\* The mutant of sorted that leaves the list in the order it came.
unsorted(levels) == levels

\* sorted(levels)
RECURSIVE sorted(_)
sorted(levels) ==
    IF levels = <<>> THEN <<>> ELSE Insert(Head(levels), sorted(Tail(levels)))

\* The mutant of diff_within that measures the distance from the first
\* member of the open cluster instead of the last.
diff_within_first(level, current_cluster, threshold) ==
    LET first_in_cluster == current_cluster[1]
    IN  Abs(level - first_in_cluster) * 100 * 10 <= threshold * first_in_cluster

\* diff_percent <= threshold_percent, with
\* diff_percent = abs(level - last_in_cluster) / last_in_cluster * 100
\* (levels are positive, so the division is multiplied out).
diff_within(level, current_cluster, threshold) ==
    LET last_in_cluster == current_cluster[Len(current_cluster)]
    IN  Abs(level - last_in_cluster) * 100 * 10 <= threshold * last_in_cluster

\* The for loop over sorted_levels[1:] and the final flush.
RECURSIVE ClusterLoop(_, _, _, _)
ClusterLoop(rest, clusters, current_cluster, threshold) ==
    IF rest = <<>> THEN Append(clusters, Mean(current_cluster))
    ELSE IF diff_within(Head(rest), current_cluster, threshold)
         THEN ClusterLoop(Tail(rest), clusters,
                          Append(current_cluster, Head(rest)), threshold)
         ELSE ClusterLoop(Tail(rest), Append(clusters, Mean(current_cluster)),
                          <<Head(rest)>>, threshold)

cluster_levels(levels, threshold) ==
    IF Len(levels) = 0 THEN <<>>
    ELSE LET sorted_levels == sorted(levels)
         IN  ClusterLoop(Tail(sorted_levels), <<>>, <<sorted_levels[1]>>, threshold)

LevelValues == {PriceMid + k * PriceStep : k \in 0..NHeights}

\* 99.0, 99.01 and 105.0 in hundredths.
ScenarioLevels == <<9900, 9901, 10500>>

InitCluster ==
    /\ SessionsAtRest
    /\ called = "none"
    /\ ret = <<>>
    /\ \/ \E n \in 0..MaxLevels : \E levels \in [1..n -> LevelValues] :
          \E threshold \in Thresholds :
             args = [levels |-> levels, threshold |-> threshold]
       \/ args = [levels |-> ScenarioLevels, threshold |-> 10]

\* render / find_swing_levels: cluster_levels(candidates, merge_threshold)
ClusterStep ==
    /\ called = "none"
    /\ called' = "cluster_levels"
    /\ ret' = cluster_levels(args.levels, args.threshold)
    /\ UNCHANGED args
    /\ UNCHANGED refreshVars

SpecCluster == InitCluster /\ [][ClusterStep]_vars

(* Claim C7 *)

\* The places of a sorted list after which the step to the next level
\* exceeds the threshold, and the places where a cluster starts.
Breaks(S, threshold) ==
    {i \in 1..(Len(S) - 1) : (S[i + 1] - S[i]) * 1000 > threshold * S[i]}

Starts(S, threshold) == {1} \cup {i + 1 : i \in Breaks(S, threshold)}

Kth(set, k) == CHOOSE x \in set : Cardinality({y \in set : y <= x}) = k

RECURSIVE SumRange(_, _, _)
SumRange(S, a, b) == IF a > b THEN 0 ELSE S[a] + SumRange(S, a + 1, b)

\* The reference clustering: the sorted list cut at its breaks, each piece
\* replaced by its arithmetic mean.
ReferenceClusters(S, threshold) ==
    IF S = <<>> THEN <<>>
    ELSE LET starts == Starts(S, threshold)
             m == Cardinality(starts)
         IN  [k \in 1..m |->
                LET a == Kth(starts, k)
                    b == IF k = m THEN Len(S) ELSE Kth(starts, k + 1) - 1
                IN  [num |-> SumRange(S, a, b), den |-> b - a + 1]]

\* a < b for two fractions with positive denominators.
FracLess(a, b) == a.num * b.den < b.num * a.den

\* C7: cluster_levels is the single-pass greedy clustering: the sorted
\* levels are cut wherever the step from one level to the next exceeds
\* threshold_percent of the earlier one, and each piece gives its arithmetic
\* mean, in ascending order; cluster([]) = [], cluster([x]) = [x], and
\* [99.0, 99.01, 105.0] at 1.0 gives 99.005 and 105.0.
C7_ClusterIsGreedyReference ==
    called = "cluster_levels" =>
        /\ ret = ReferenceClusters(sorted(args.levels), args.threshold)
        /\ \A k \in 1..(Len(ret) - 1) : FracLess(ret[k], ret[k + 1])
        /\ args.levels = <<>> => ret = <<>>
        /\ Len(args.levels) = 1 => ret = <<[num |-> args.levels[1], den |-> 1]>>
        /\ (args.levels = ScenarioLevels /\ args.threshold = 10) =>
              /\ Len(ret) = 2
              /\ ret[1].num * 2 = 19801 * ret[1].den
              /\ ret[2].num = 10500 * ret[2].den

\* A chain: three levels in one cluster although the last one is further
\* than the threshold from the first.
C7_Witness ==
    /\ called = "cluster_levels"
    /\ Len(args.levels) = 3
    /\ Len(ret) = 1
    /\ LET S == sorted(args.levels)
       IN  (S[3] - S[1]) * 1000 > args.threshold * S[1]

----------------------------------------------------------------------------
(* The levels that are drawn (graficos_unicos.render, find_swing_levels)   *)

MaxNumLevels == 2

\* seq[:n]
Truncate(seq, n) == SubSeq(seq, 1, IF n < Len(seq) THEN n ELSE Len(seq))

Reverse(seq) == [k \in 1..Len(seq) |-> seq[Len(seq) - k + 1]]

\* Series.nsmallest(k).values and Series.nlargest(k).values
nsmallest(series, k) == Truncate(sorted(series), k)
nlargest(series, k) == Truncate(Reverse(sorted(series)), k)

RECURSIVE Dedup(_)
Dedup(seq) ==
    IF Len(seq) <= 1 THEN seq
    ELSE IF seq[1] = seq[2] THEN Dedup(Tail(seq))
    ELSE <<seq[1]>> \o Dedup(Tail(seq))

\* list(set(values)): the order of a set is arbitrary, and cluster_levels
\* sorts what it is given, so the ascending order stands for any order.
unique(values) == Dedup(sorted(values))

RECURSIVE InsertFrac(_, _)
InsertFrac(x, seq) ==
    IF seq = <<>> THEN <<x>>
    ELSE IF ~FracLess(Head(seq), x) THEN <<x>> \o seq
    ELSE <<Head(seq)>> \o InsertFrac(x, Tail(seq))

\* list.sort() and list.sort(reverse=True) on cluster means
RECURSIVE sort_ascending(_)
sort_ascending(seq) ==
    IF seq = <<>> THEN <<>> ELSE InsertFrac(Head(seq), sort_ascending(Tail(seq)))

sort_descending(seq) == Reverse(sort_ascending(seq))

find_swing_levels(frame, lookback, num_levels, pivot_order, merge_threshold) ==
    LET window == tail(frame, lookback)
        pivots == detect_support_resistance_pivots(
                      Column(window, "High"), Column(window, "Low"), pivot_order)
        resistances_extreme == nlargest(Column(window, "High"), num_levels * 3)
        supports_extreme == nsmallest(Column(window, "Low"), num_levels * 3)
        all_resistances == pivots.resistances \o resistances_extreme
        all_supports == pivots.supports \o supports_extreme
        resistances_clustered == cluster_levels(unique(all_resistances), merge_threshold)
        supports_clustered == cluster_levels(unique(all_supports), merge_threshold)
    IN  [resistances |-> Truncate(sort_descending(resistances_clustered), num_levels),
         supports |-> Truncate(sort_ascending(supports_clustered), num_levels)]

\* render, "if sr_enabled and lookback > 0": the resistances and supports
\* handed to fig.add_hline, by detection method.
render_levels(filtered, lookback, num_levels, pivot_order, merge_threshold, detection_method) ==
    IF detection_method = "Pivots Locales"
    THEN LET pivots == detect_support_resistance_pivots(
                           Column(tail(filtered, lookback), "High"),
                           Column(tail(filtered, lookback), "Low"), pivot_order)
         IN  [resistances |->
                 Truncate(cluster_levels(pivots.resistances, merge_threshold), num_levels),
              supports |->
                 Truncate(cluster_levels(pivots.supports, merge_threshold), num_levels)]
    ELSE IF detection_method = "Maximos/Minimos"
    THEN LET window == tail(filtered, lookback)
             resistances == nlargest(Column(window, "High"), num_levels * 3)
             supports == nsmallest(Column(window, "Low"), num_levels * 3)
         IN  [resistances |->
                 Truncate(cluster_levels(resistances, merge_threshold), num_levels),
              supports |->
                 Truncate(cluster_levels(supports, merge_threshold), num_levels)]
    ELSE find_swing_levels(filtered, lookback, num_levels, pivot_order, merge_threshold)

DetectionMethods == {"Pivots Locales", "Maximos/Minimos", "Combinado"}

InitLevels ==
    /\ SessionsAtRest
    /\ called = "none"
    /\ ret = <<>>
    /\ \E filtered \in LookbackFrames, lookback \in {MinLookback, MinLookback + 1},
          num_levels \in 1..MaxNumLevels, pivot_order \in 1..MaxOrder,
          merge_threshold \in Thresholds, detection_method \in DetectionMethods :
          args = [filtered |-> filtered, lookback |-> lookback,
                  num_levels |-> num_levels, pivot_order |-> pivot_order,
                  merge_threshold |-> merge_threshold,
                  detection_method |-> detection_method]

\* render: the support/resistance block
DrawLevelsStep ==
    /\ called = "none"
    /\ called' = "render_levels"
    /\ ret' = render_levels(args.filtered, args.lookback, args.num_levels,
                            args.pivot_order, args.merge_threshold,
                            args.detection_method)
    /\ UNCHANGED args
    /\ UNCHANGED refreshVars

SpecLevels == InitLevels /\ [][DrawLevelsStep]_vars

(* Claim C8 *)

\* The clustered levels of each side for the method in use, before any
\* sorting or truncation.
ClusteredCandidates(side) ==
    LET window == tail(args.filtered, args.lookback)
        pivots == detect_support_resistance_pivots(
                      Column(window, "High"), Column(window, "Low"), args.pivot_order)
        pivot_levels == IF side = "resistances" THEN pivots.resistances ELSE pivots.supports
        extreme_levels ==
            IF side = "resistances"
            THEN nlargest(Column(window, "High"), args.num_levels * 3)
            ELSE nsmallest(Column(window, "Low"), args.num_levels * 3)
        candidates ==
            IF args.detection_method = "Pivots Locales" THEN pivot_levels
            ELSE IF args.detection_method = "Maximos/Minimos" THEN extreme_levels
            ELSE unique(pivot_levels \o extreme_levels)
    IN  Range(cluster_levels(candidates, args.merge_threshold))

FracEq(a, b) == a.num * b.den = b.num * a.den

\* The clustered levels of a side that are not among the drawn ones.
NotDrawn(side, drawn) ==
    {c \in ClusteredCandidates(side) : \A r \in Range(drawn) : ~FracEq(c, r)}

\* C8: for every detection method the drawn resistances are the num_levels
\* highest clustered resistance levels, highest first, and the drawn
\* supports the num_levels lowest clustered support levels, lowest first;
\* neither list is longer than num_levels.
C8_DrawnLevelsRankedAndTruncated ==
    called = "render_levels" =>
        /\ Len(ret.resistances) <= args.num_levels
        /\ Len(ret.supports) <= args.num_levels
        /\ \A k \in 1..(Len(ret.resistances) - 1) :
              FracLess(ret.resistances[k + 1], ret.resistances[k])
        /\ \A k \in 1..(Len(ret.supports) - 1) :
              FracLess(ret.supports[k], ret.supports[k + 1])
        /\ \A c \in NotDrawn("resistances", ret.resistances) :
              /\ Len(ret.resistances) = args.num_levels
              /\ \A r \in Range(ret.resistances) : FracLess(c, r)
        /\ \A c \in NotDrawn("supports", ret.supports) :
              /\ Len(ret.supports) = args.num_levels
              /\ \A r \in Range(ret.supports) : FracLess(r, c)

\* The part of C8 the code keeps for every method: the length bound and the
\* supports.
C8_SupportsAndLengths ==
    called = "render_levels" =>
        /\ Len(ret.resistances) <= args.num_levels
        /\ Len(ret.supports) <= args.num_levels
        /\ \A k \in 1..(Len(ret.supports) - 1) :
              FracLess(ret.supports[k], ret.supports[k + 1])
        /\ \A c \in NotDrawn("supports", ret.supports) :
              /\ Len(ret.supports) = args.num_levels
              /\ \A r \in Range(ret.supports) : FracLess(r, c)

\* C8 for the combined method alone.
C8_CombinedMethod ==
    args.detection_method = "Combinado" => C8_DrawnLevelsRankedAndTruncated

----------------------------------------------------------------------------
(* Ratio of two series (graficos_comparacion.render)                       *)
(*                                                                         *)
(* Bars carry whole-second timestamps 1..MaxStamp (in ticks:               *)
(* second * TicksPerSecond); a ratio is the exact fraction num / den, and  *)
(* a division by zero (inf or NaN in pandas) is a fraction with den = 0.   *)

MaxStamp == 4

Patterns == {"flat", "range", "trend", "zero"}

\* The bar of a series at a given second, by the shape of the series.
BarAt(pattern, second) ==
    LET prices ==
            IF pattern = "flat" THEN <<100, 100, 100, 100>>
            ELSE IF pattern = "range" THEN <<99, 102, 98, 100>>
            ELSE IF pattern = "trend"
                 THEN <<100 + second, 102 + second, 99 + second, 101 + second>>
            ELSE <<0, 100, 0, 100>>
    IN  [Date |-> second * TicksPerSecond, Open |-> prices[1], High |-> prices[2],
         Low |-> prices[3], Close |-> prices[4]]

MinOf(set) == CHOOSE x \in set : \A y \in set : x <= y
MaxOf(set) == CHOOSE x \in set : \A y \in set : x >= y

\* sorted(set(...)) of timestamps
RECURSIVE SortedSeqOf(_)
SortedSeqOf(set) ==
    IF set = {} THEN <<>> ELSE <<MinOf(set)>> \o SortedSeqOf(set \ {MinOf(set)})

\* The frames load_prices returns: not empty, sorted by timestamp; load_prices
\* drops no repeated timestamp, so the first row may come twice.
SeriesOf(seconds, pattern, repeated) ==
    LET stamps == SortedSeqOf(seconds)
        rows == [k \in 1..Len(stamps) |-> BarAt(pattern, stamps[k])]
    IN  IF repeated THEN <<rows[1]>> \o rows ELSE rows

Dates(frame) == {frame[k].Date : k \in 1..Len(frame)}

HasRepeatedDate(frame) == Cardinality(Dates(frame)) < Len(frame)

\* The mutant of fill_missing that leaves out the forward fill: only the
\* timestamps at which the series has a bar of its own survive.
fill_missing_no_ffill(frame, union_index) ==
    SelectSeq(frame, LAMBDA row : row.Date \in Range(union_index))

\* The mutant of fill_missing that forward-fills every column: a timestamp
\* without a bar of its own repeats the whole earlier bar.
fill_missing_ffill_all(frame, union_index) ==
    LET has_source(t) == \E k \in 1..Len(frame) : frame[k].Date <= t
        source(t) == frame[MaxOf({k \in 1..Len(frame) : frame[k].Date <= t})]
        kept == SelectSeq(union_index, has_source)
    IN  [k \in 1..Len(kept) |-> [source(kept[k]) EXCEPT !.Date = kept[k]]]

\* fill_missing: reindex on the union, forward-fill Close, give Open, High
\* and Low the filled close where they are missing, drop the rows whose
\* Close is still missing (frame has no repeated timestamp).
fill_missing(frame, union_index) ==
    LET has_source(t) == \E k \in 1..Len(frame) : frame[k].Date <= t
        source(t) == frame[MaxOf({k \in 1..Len(frame) : frame[k].Date <= t})]
        filled(t) ==
            IF source(t).Date = t THEN source(t)
            ELSE [Date |-> t, Open |-> source(t).Close, High |-> source(t).Close,
                  Low |-> source(t).Close, Close |-> source(t).Close]
        kept == SelectSeq(union_index, has_source)
    IN  [k \in 1..Len(kept) |-> filled(kept[k])]

RowAt(frame, t) == frame[CHOOSE k \in 1..Len(frame) : frame[k].Date = t]

Frac(a, b) == [num |-> a, den |-> b]
Finite(x) == x.den # 0

\* The mutant of ratio_rows that divides every field by the same field.
ratio_rows_same_field(df1_ratio, df2_ratio, common_idx) ==
    [k \in 1..Len(common_idx) |->
        LET a == RowAt(df1_ratio, common_idx[k])
            b == RowAt(df2_ratio, common_idx[k])
        IN  [Date |-> common_idx[k],
             Open |-> Frac(a.Open, b.Open),
             High |-> Frac(a.High, b.High),
             Low |-> Frac(a.Low, b.Low),
             Close |-> Frac(a.Close, b.Close)]]

\* ratio_df before and after the rows with a non-finite entry are dropped
ratio_rows(df1_ratio, df2_ratio, common_idx) ==
    [k \in 1..Len(common_idx) |->
        LET a == RowAt(df1_ratio, common_idx[k])
            b == RowAt(df2_ratio, common_idx[k])
        IN  [Date |-> common_idx[k],
             Open |-> Frac(a.Open, b.Open),
             High |-> Frac(a.High, b.Low),
             Low |-> Frac(a.Low, b.High),
             Close |-> Frac(a.Close, b.Close)]]

\* The mutant of dropna that looks at the Close ratio only.
dropna_close_only(rows) == SelectSeq(rows, LAMBDA r : Finite(r.Close))

dropna(rows) ==
    SelectSeq(rows, LAMBDA r : Finite(r.Open) /\ Finite(r.High) /\ Finite(r.Low)
                                  /\ Finite(r.Close))

NoRatio(outcome, start, end) ==
    [outcome |-> outcome, start |-> start, end |-> end, df1_f |-> <<>>, df2_f |-> <<>>,
     union_index |-> <<>>, df1_filled |-> <<>>, df2_filled |-> <<>>,
     common_idx |-> <<>>, ratio_df |-> <<>>]

\* render from the date filter to the ratio chart, for a selected range.
render_ratio(df1, df2, start, end) ==
    LET df1_f == filter_by_date(df1, start, end)
        df2_f == filter_by_date(df2, start, end)
        union_index == SortedSeqOf(Dates(df1_f) \cup Dates(df2_f))
    IN  IF HasRepeatedDate(df1_f) \/ HasRepeatedDate(df2_f)
        THEN [NoRatio("ValueError", start, end) EXCEPT
                 !.df1_f = df1_f, !.df2_f = df2_f, !.union_index = union_index]
        ELSE LET df1_filled == fill_missing(df1_f, union_index)
                 df2_filled == fill_missing(df2_f, union_index)
                 common_idx == SortedSeqOf(Dates(df1_filled) \cap Dates(df2_filled))
                 ratio_df == dropna(ratio_rows(df1_filled, df2_filled, common_idx))
             IN  [outcome |-> IF common_idx = <<>> THEN "no_common_idx"
                              ELSE IF ratio_df = <<>> THEN "no_ratio"
                              ELSE "ratio_chart",
                  start |-> start, end |-> end, df1_f |-> df1_f, df2_f |-> df2_f,
                  union_index |-> union_index, df1_filled |-> df1_filled,
                  df2_filled |-> df2_filled, common_idx |-> common_idx,
                  ratio_df |-> IF common_idx = <<>> THEN <<>> ELSE ratio_df]

\* min_overlap and max_overlap of render, as calendar days
min_overlap(df1, df2) ==
    LET a == DayOf(MinOf(Dates(df1)))
        b == DayOf(MinOf(Dates(df2)))
    IN  IF a > b THEN a ELSE b

max_overlap(df1, df2) ==
    LET a == DayOf(MaxOf(Dates(df1)))
        b == DayOf(MaxOf(Dates(df2)))
    IN  IF a < b THEN a ELSE b

StampSets == (SUBSET (1..MaxStamp)) \ {{}}

InitRatio ==
    /\ SessionsAtRest
    /\ called = "none"
    /\ ret = <<>>
    /\ \E s1 \in StampSets, s2 \in StampSets, p1 \in Patterns, p2 \in Patterns,
          r1 \in BOOLEAN, r2 \in BOOLEAN :
          args = [df1 |-> SeriesOf(s1, p1, r1), df2 |-> SeriesOf(s2, p2, r2)]

\* graficos_comparacion.render once both frames are loaded: the overlap
\* check, the date range picked within the overlap, the filter, the fill and
\* the ratio.
RatioStep ==
    /\ called = "none"
    /\ called' = "render_ratio"
    /\ \/ /\ min_overlap(args.df1, args.df2) > max_overlap(args.df1, args.df2)
          /\ ret' = NoRatio("no_overlap", 0, 0)
       \/ \E start \in Days, end \in Days :
             /\ min_overlap(args.df1, args.df2) <= start
             /\ start <= end
             /\ end <= max_overlap(args.df1, args.df2)
             /\ ret' = render_ratio(args.df1, args.df2, start, end)
    /\ UNCHANGED args
    /\ UNCHANGED refreshVars

SpecRatio == InitRatio /\ [][RatioStep]_vars

(* Claims C9, C10 *)

Computed == called = "render_ratio" /\ ret.outcome \notin {"no_overlap", "ValueError"}

\* The series has a bar of its own at or before t.
HasBarUpTo(frame, t) == \E k \in 1..Len(frame) : frame[k].Date <= t

\* C9: the domain on which ratio bars are computed is the set of the
\* timestamps t of the union of the two filtered series such that each
\* series has an actual bar at a timestamp <= t; it is the intersection of
\* the two filled timestamp sets, and every ratio row lies in it.
C9_RatioDomain ==
    Computed =>
        /\ Range(ret.common_idx) =
              {t \in Dates(ret.df1_f) \cup Dates(ret.df2_f) :
                  HasBarUpTo(ret.df1_f, t) /\ HasBarUpTo(ret.df2_f, t)}
        /\ Range(ret.common_idx) = Dates(ret.df1_filled) \cap Dates(ret.df2_filled)
        /\ Dates(ret.ratio_df) \subseteq Range(ret.common_idx)
        /\ \A k \in 1..(Len(ret.common_idx) - 1) :
              ret.common_idx[k] < ret.common_idx[k + 1]

\* A union timestamp earlier than the first bar of a series is dropped, and
\* a timestamp at which one series has no bar of its own is in the domain.
C9_Witness ==
    /\ Computed
    /\ \E t \in Dates(ret.df1_f) : t \notin Range(ret.common_idx)
    /\ \E t \in Range(ret.common_idx) : t \notin Dates(ret.df1_f)

Stamps(seconds) == {second * TicksPerSecond : second \in seconds}

\* Series A has bars at 1, 2, 3 and series B at 2, 3, 4 after the filter, and
\* every close at the shared timestamps is 100.
Scenario123 ==
    /\ Computed
    /\ Dates(ret.df1_f) = Stamps({1, 2, 3})
    /\ Dates(ret.df2_f) = Stamps({2, 3, 4})
    /\ \A t \in Stamps({2, 3}) :
          RowAt(ret.df1_f, t).Close = 100 /\ RowAt(ret.df2_f, t).Close = 100

IsOne(x) == x.den # 0 /\ x.num = x.den

\* C10 as stated: in that scenario the ratio series has domain exactly
\* {2, 3}, and every ratio value in it is 1.0.
C10_ScenarioDomainIs23 ==
    Scenario123 =>
        /\ Dates(ret.ratio_df) = Stamps({2, 3})
        /\ \A k \in 1..Len(ret.ratio_df) :
              /\ IsOne(ret.ratio_df[k].Open)
              /\ IsOne(ret.ratio_df[k].High)
              /\ IsOne(ret.ratio_df[k].Low)
              /\ IsOne(ret.ratio_df[k].Close)

\* C10 amended: in that scenario the ratio is computed on {2, 3, 4}:
\* timestamp 1 is absent, timestamp 4 is present with A's bar carried
\* forward from timestamp 3, a row being dropped only for a zero divisor in
\* B; and the close ratio is 1.0 in every row at 2 and 3.
C10_ScenarioDomainIs234 ==
    Scenario123 =>
        /\ Range(ret.common_idx) = Stamps({2, 3, 4})
        /\ Dates(ret.ratio_df) =
              {t \in Stamps({2, 3, 4}) :
                  LET b == RowAt(ret.df2_f, t)
                  IN  b.Open # 0 /\ b.High # 0 /\ b.Low # 0 /\ b.Close # 0}
        /\ \A k \in 1..Len(ret.ratio_df) :
              /\ ret.ratio_df[k].Date \in Stamps({2, 3}) => IsOne(ret.ratio_df[k].Close)
              /\ ret.ratio_df[k].Date \in Stamps({4}) =>
                    ret.ratio_df[k].Close =
                        Frac(RowAt(ret.df1_f, 3 * TicksPerSecond).Close,
                             RowAt(ret.df2_f, 4 * TicksPerSecond).Close)

\* The scenario with the ratio drawn at 2, 3 and 4.
C10_Witness ==
    /\ Scenario123
    /\ ret.outcome = "ratio_chart"
    /\ Dates(ret.ratio_df) = Stamps({2, 3, 4})

(* Claims C11, C12, C17 *)

\* The bar of the series that is the most recent one strictly before t.
IsLastBarBefore(frame, k, t) ==
    /\ frame[k].Date < t
    /\ \A j \in 1..Len(frame) : frame[j].Date < t => frame[j].Date <= frame[k].Date

\* Every row of the filled series either is the series' own bar at that
\* timestamp, unchanged, or is a zero-range bar at the close of the most
\* recent earlier bar of the series.
FilledAsClaimed(frame, filled) ==
    \A i \in 1..Len(filled) :
        LET row == filled[i]
        IN  IF row.Date \in Dates(frame)
            THEN row = RowAt(frame, row.Date)
            ELSE \E k \in 1..Len(frame) :
                    /\ IsLastBarBefore(frame, k, row.Date)
                    /\ row.Open = frame[k].Close
                    /\ row.High = frame[k].Close
                    /\ row.Low = frame[k].Close
                    /\ row.Close = frame[k].Close

\* C11: in the filled series a timestamp at which the series had no bar
\* carries a zero-range bar whose open, high, low and close equal the close
\* of the series' most recent earlier bar, and a timestamp at which the
\* series had a bar keeps its open, high, low and close.
C11_FilledBars ==
    Computed =>
        /\ FilledAsClaimed(ret.df1_f, ret.df1_filled)
        /\ FilledAsClaimed(ret.df2_f, ret.df2_filled)
        /\ Dates(ret.df1_f) \subseteq Dates(ret.df1_filled)
        /\ Dates(ret.df2_f) \subseteq Dates(ret.df2_filled)

\* A filled series with a synthetic bar that follows a bar whose open
\* differs from its close, and with a bar of its own.
C11_Witness ==
    /\ Computed
    /\ \E i \in 1..Len(ret.df1_filled), k \in 1..Len(ret.df1_f) :
          /\ ret.df1_filled[i].Date \notin Dates(ret.df1_f)
          /\ IsLastBarBefore(ret.df1_f, k, ret.df1_filled[i].Date)
          /\ ret.df1_f[k].Open # ret.df1_f[k].Close
    /\ \E i \in 1..Len(ret.df1_filled) : ret.df1_filled[i].Date \in Dates(ret.df1_f)

\* x is the quotient a / b (b not zero).
IsQuotient(x, a, b) == b # 0 /\ x.den # 0 /\ x.num * b = a * x.den

\* C12: a row of the ratio series at t has open = A.open/B.open,
\* high = A.high/B.low, low = A.low/B.high, close = A.close/B.close over the
\* filled bars at t; a common timestamp has a row iff its four ratios are
\* finite; and when no row remains the outcome is the no-data warning, not
\* an exception.
C12_RatioRows ==
    Computed =>
        /\ \A i \in 1..Len(ret.ratio_df) :
              LET r == ret.ratio_df[i]
                  a == RowAt(ret.df1_filled, r.Date)
                  b == RowAt(ret.df2_filled, r.Date)
              IN  /\ r.Date \in Range(ret.common_idx)
                  /\ IsQuotient(r.Open, a.Open, b.Open)
                  /\ IsQuotient(r.High, a.High, b.Low)
                  /\ IsQuotient(r.Low, a.Low, b.High)
                  /\ IsQuotient(r.Close, a.Close, b.Close)
        /\ \A t \in Range(ret.common_idx) :
              LET b == RowAt(ret.df2_filled, t)
              IN  t \in Dates(ret.ratio_df) <=>
                     (b.Open # 0 /\ b.High # 0 /\ b.Low # 0 /\ b.Close # 0)
        /\ Cardinality(Dates(ret.ratio_df)) = Len(ret.ratio_df)
        /\ ret.ratio_df = <<>> => ret.outcome \in {"no_common_idx", "no_ratio"}
        /\ ret.ratio_df # <<>> => ret.outcome = "ratio_chart"

\* A ratio series that lost a row to a zero divisor and kept a row whose
\* high ratio differs from its low ratio.
C12_Witness ==
    /\ Computed
    /\ \E t \in Range(ret.common_idx) : t \notin Dates(ret.ratio_df)
    /\ \E i \in 1..Len(ret.ratio_df) :
          ~FracEq(ret.ratio_df[i].High, ret.ratio_df[i].Low)

\* A ratio series of which no row remains: the no-data outcome.
C12_WitnessNoRows ==
    /\ Computed
    /\ ret.common_idx # <<>>
    /\ ret.outcome = "no_ratio"

\* 0 < low <= open <= high and low <= close <= high
WellFormed(bar) ==
    /\ 0 < bar.Low
    /\ bar.Low <= bar.Open /\ bar.Open <= bar.High
    /\ bar.Low <= bar.Close /\ bar.Close <= bar.High

FracLeq(a, b) == a.num * b.den <= b.num * a.den

\* C17: when every bar of both series is well-formed, every bar of the
\* ratio series is a well-formed candlestick: low <= open <= high and
\* low <= close <= high.
C17_RatioBarsWellFormed ==
    (/\ Computed
     /\ \A k \in 1..Len(ret.df1_f) : WellFormed(ret.df1_f[k])
     /\ \A k \in 1..Len(ret.df2_f) : WellFormed(ret.df2_f[k]))
    => \A i \in 1..Len(ret.ratio_df) :
          LET r == ret.ratio_df[i]
          IN  /\ r.Open.den > 0 /\ r.High.den > 0 /\ r.Low.den > 0 /\ r.Close.den > 0
              /\ FracLeq(r.Low, r.Open) /\ FracLeq(r.Open, r.High)
              /\ FracLeq(r.Low, r.Close) /\ FracLeq(r.Close, r.High)

\* Two well-formed series with a ratio bar at a timestamp where the first
\* series is forward-filled, and one where the bars of both are their own
\* and the ratio bar has a range.
C17_Witness ==
    /\ Computed
    /\ \A k \in 1..Len(ret.df1_f) : WellFormed(ret.df1_f[k])
    /\ \A k \in 1..Len(ret.df2_f) : WellFormed(ret.df2_f[k])
    /\ \E i \in 1..Len(ret.ratio_df) : ret.ratio_df[i].Date \notin Dates(ret.df1_f)
    /\ \E i \in 1..Len(ret.ratio_df) :
          /\ ret.ratio_df[i].Date \in Dates(ret.df1_f) \cap Dates(ret.df2_f)
          /\ FracLess(ret.ratio_df[i].Low, ret.ratio_df[i].High)

----------------------------------------------------------------------------
(* cluster_levels applied to its own output                                *)
(*                                                                         *)
(* The output of cluster_levels is a list of means; the same code is       *)
(* applied to it here on exact fractions.                                  *)

FracAdd(a, b) == [num |-> a.num * b.den + b.num * a.den, den |-> a.den * b.den]

RECURSIVE FracSum(_)
FracSum(seq) ==
    IF Len(seq) = 1 THEN seq[1] ELSE FracAdd(Head(seq), FracSum(Tail(seq)))

\* np.mean of a cluster of means
mean_of_means(cluster) ==
    LET total == FracSum(cluster)
    IN  [num |-> total.num, den |-> total.den * Len(cluster)]

\* diff_percent <= threshold_percent for two means (both positive)
diff_within_means(level, current_cluster, threshold) ==
    LET last_in_cluster == current_cluster[Len(current_cluster)]
    IN  Abs(level.num * last_in_cluster.den - last_in_cluster.num * level.den) * 100 * 10
            <= threshold * level.den * last_in_cluster.num

RECURSIVE ClusterLoopMeans(_, _, _, _)
ClusterLoopMeans(rest, clusters, current_cluster, threshold) ==
    IF rest = <<>> THEN Append(clusters, mean_of_means(current_cluster))
    ELSE IF diff_within_means(Head(rest), current_cluster, threshold)
         THEN ClusterLoopMeans(Tail(rest), clusters,
                               Append(current_cluster, Head(rest)), threshold)
         ELSE ClusterLoopMeans(Tail(rest),
                               Append(clusters, mean_of_means(current_cluster)),
                               <<Head(rest)>>, threshold)

cluster_levels_means(levels, threshold) ==
    IF Len(levels) = 0 THEN <<>>
    ELSE LET sorted_levels == sort_ascending(levels)
         IN  ClusterLoopMeans(Tail(sorted_levels), <<>>, <<sorted_levels[1]>>, threshold)

\* A level as the fraction level / 1.
AsMeans(levels) == [k \in 1..Len(levels) |-> [num |-> levels[k], den |-> 1]]

InitRecluster ==
    /\ SessionsAtRest
    /\ called = "none"
    /\ ret = <<>>
    /\ \/ \E n \in 0..MaxLevels : \E levels \in [1..n -> LevelValues] :
          \E threshold \in Thresholds :
             args = [levels |-> levels, threshold |-> threshold]
       \/ args = [levels |-> ScenarioLevels, threshold |-> 10]

\* cluster_levels(cluster_levels(levels, t), t), together with
\* cluster_levels(levels, t)
ReclusterStep ==
    /\ called = "none"
    /\ called' = "cluster_levels_twice"
    /\ LET once == cluster_levels(args.levels, args.threshold)
       IN  ret' = [once |-> once,
                   twice |-> cluster_levels_means(once, args.threshold),
                   lifted |-> cluster_levels_means(AsMeans(args.levels), args.threshold)]
    /\ UNCHANGED args
    /\ UNCHANGED refreshVars

SpecRecluster == InitRecluster /\ [][ReclusterStep]_vars

(* Claim C15 *)

\* b is more than threshold_percent above a (a, b positive fractions).
MoreThanThresholdApart(a, b, threshold) ==
    (b.num * a.den - a.num * b.den) * 1000 > threshold * b.den * a.num

\* Every two of the means are more than the threshold apart.
MeansApart(means, threshold) ==
    \A i \in 1..Len(means), j \in 1..Len(means) :
        i < j => MoreThanThresholdApart(means[i], means[j], threshold)

SameMeans(xs, ys) ==
    /\ Len(xs) = Len(ys)
    /\ \A k \in 1..Len(xs) : FracEq(xs[k], ys[k])

\* The levels are pairwise more than the threshold apart, in any order.
LevelsSpaced(levels, threshold) ==
    \A i \in 1..Len(levels), j \in 1..Len(levels) :
        (i # j /\ levels[i] <= levels[j]) =>
            (levels[j] - levels[i]) * 1000 > threshold * levels[i]

\* C15: when the means cluster_levels returns are pairwise more than
\* threshold_percent apart, clustering them again with the same threshold
\* returns them unchanged; and a list of levels spaced more than
\* threshold_percent apart is returned as the same values in ascending
\* order.
C15_ClusterIdempotent ==
    called = "cluster_levels_twice" =>
        /\ MeansApart(ret.once, args.threshold) => SameMeans(ret.twice, ret.once)
        /\ LevelsSpaced(args.levels, args.threshold) =>
              /\ Len(ret.once) = Len(args.levels)
              /\ {ret.once[k] : k \in 1..Len(ret.once)}
                    = {[num |-> args.levels[k], den |-> 1] : k \in 1..Len(args.levels)}
              /\ \A k \in 1..(Len(ret.once) - 1) : FracLess(ret.once[k], ret.once[k + 1])
        /\ SameMeans(ret.lifted, ret.once)

\* The means of a two-member cluster and of a further cluster, clustered
\* again.
C15_Witness ==
    /\ called = "cluster_levels_twice"
    /\ Len(args.levels) >= 3
    /\ Len(ret.once) = 2
    /\ ret.once[1].den = 2
    /\ MeansApart(ret.once, args.threshold)
    /\ SameMeans(ret.twice, ret.once)

\* Three spaced levels given out of order come back in ascending order.
C15_WitnessSpaced ==
    /\ called = "cluster_levels_twice"
    /\ Len(args.levels) = 3
    /\ args.levels[1] > args.levels[2]
    /\ LevelsSpaced(args.levels, args.threshold)
    /\ Len(ret.once) = 3

----------------------------------------------------------------------------
(* Loading a stored series (data_utils.load_prices)                        *)
(*                                                                         *)
(* A stored table has some of the columns Datetime, Date, Open, High, Low, *)
(* Close and a few rows; a cell is a number, a null, or a text that is     *)
(* neither a date nor a number.                                            *)

MaxFileRows == 2
MaxFileStamp == 2

AllColumns == {"Datetime", "Date", "Open", "High", "Low", "Close"}

Num(v) == [kind |-> "num", value |-> v]
Null == [kind |-> "null", value |-> 0]
Text == [kind |-> "text", value |-> 0]

DateCells == {Num(t) : t \in 1..MaxFileStamp} \cup {Text}

RowKinds == {"ok", "null_low", "text_high"}

\* A stored row: the same timestamp in Datetime and Date, and the prices by
\* the kind of the row.
StoredRow(columns, date_cell, kind) ==
    [c \in columns |->
        IF c \in {"Datetime", "Date"} THEN date_cell
        ELSE IF c = "Low" /\ kind = "null_low" THEN Null
        ELSE IF c = "High" /\ kind = "text_high" THEN Text
        ELSE Num(100)]

\* next((c for c in ["Datetime", "Date"] if c in df.columns), None)
date_col_of(columns) ==
    IF "Datetime" \in columns THEN "Datetime"
    ELSE IF "Date" \in columns THEN "Date"
    ELSE "None"

\* pd.to_datetime(..., errors="coerce", utc=True): what is not a date is NaT
to_datetime_coerce(cell) == IF cell.kind = "num" THEN cell ELSE Null

\* pd.to_numeric(..., errors="coerce"): what is not a number is NaN
to_numeric_coerce(cell) == IF cell.kind = "num" THEN cell ELSE Null

isna(cell) == cell.kind = "null"

\* df.dropna(subset=...)
dropna_subset(rows, subset) ==
    SelectSeq(rows, LAMBDA row : \A c \in subset : ~isna(row[c]))

\* df.sort_values(date_col): the rows in an ascending order of the
\* timestamp; rows with equal timestamps come in either order.
sort_values(rows, date_col) ==
    LET n == Len(rows)
        orders == {f \in [1..n -> 1..n] :
                      /\ \A i \in 1..n : \E j \in 1..n : f[j] = i
                      /\ \A i \in 1..(n - 1) :
                            rows[f[i]][date_col].value <= rows[f[i + 1]][date_col].value}
    IN  {[i \in 1..n |-> rows[f[i]]] : f \in orders}

\* optimize_dtypes on the price columns
optimize_dtypes(rows, columns) ==
    [i \in 1..Len(rows) |->
        [c \in columns |->
            IF c \in {"Close", "High", "Low", "Open"} THEN to_numeric_coerce(rows[i][c])
            ELSE rows[i][c]]]

Raised(exception, message) ==
    [exception |-> exception, message |-> message, df |-> <<>>, date_col |-> "None"]

\* load_prices: the results it can give for a stored table.
load_prices(table) ==
    LET date_col == date_col_of(table.columns)
    IN  IF date_col = "None"
        THEN {Raised("ValueError", "No se encontro columna Date o Datetime")}
        ELSE LET parsed == [i \in 1..Len(table.rows) |->
                               [table.rows[i] EXCEPT
                                   ![date_col] = to_datetime_coerce(@)]]
                 subset == {date_col, "Open", "High", "Low", "Close"}
             IN  IF ~(subset \subseteq table.columns)
                 THEN {Raised("KeyError", "dropna subset")}
                 ELSE LET kept == dropna_subset(parsed, subset)
                      IN  IF kept = <<>>
                          THEN {Raised("ValueError",
                                       "No se pudieron interpretar fechas ni datos numericos")}
                          ELSE {[exception |-> "none", message |-> "",
                                 df |-> optimize_dtypes(ordered, table.columns),
                                 date_col |-> date_col] :
                                   ordered \in sort_values(kept, date_col)}

InitLoad ==
    /\ SessionsAtRest
    /\ called = "none"
    /\ ret = <<>>
    /\ \E columns \in SUBSET AllColumns, n \in 0..MaxFileRows :
       \E dates \in [1..n -> DateCells], kinds \in [1..n -> RowKinds] :
          args = [table |-> [columns |-> columns,
                             rows |-> [i \in 1..n |->
                                          StoredRow(columns, dates[i], kinds[i])]]]

\* cached_load_prices(path) on a cache miss
LoadStep ==
    /\ called = "none"
    /\ called' = "load_prices"
    /\ ret' \in load_prices(args.table)
    /\ UNCHANGED args
    /\ UNCHANGED refreshVars

SpecLoad == InitLoad /\ [][LoadStep]_vars

(* Claims C13, C14 *)

Returned == called = "load_prices" /\ ret.exception = "none"

\* C13: a series load_prices returns has strictly increasing timestamps
\* (rows with a repeated timestamp are dropped) and no row with a null
\* timestamp, open, high, low or close.
C13_LoadedSeriesStrictAndComplete ==
    Returned =>
        /\ \A i \in 1..(Len(ret.df) - 1) :
              ret.df[i][ret.date_col].value < ret.df[i + 1][ret.date_col].value
        /\ \A i \in 1..Len(ret.df) :
              \A c \in {ret.date_col, "Open", "High", "Low", "Close"} :
                 ~isna(ret.df[i][c])

\* The timestamps of a returned series never decrease and none is null.
C13_SortedAndDated ==
    Returned =>
        /\ ret.df # <<>>
        /\ \A i \in 1..(Len(ret.df) - 1) :
              ret.df[i][ret.date_col].value <= ret.df[i + 1][ret.date_col].value
        /\ \A i \in 1..Len(ret.df) : ~isna(ret.df[i][ret.date_col])

\* The type of the failure raised when no timestamp column is found.
FormatError == "ValueError"

RequiredColumns == {"Open", "High", "Low", "Close"}

\* C14: a source without a required column fails with the format error,
\* the same one whether no timestamp column is present or a timestamp
\* column is present and one of the price columns is missing; and the
\* failure for zero valid rows is a different one.
C14_FormatErrorForMissingColumn ==
    called = "load_prices" =>
        /\ date_col_of(args.table.columns) = "None" => ret.exception = FormatError
        /\ (/\ date_col_of(args.table.columns) # "None"
            /\ ~(RequiredColumns \subseteq args.table.columns))
              => ret.exception = FormatError
        /\ (/\ date_col_of(args.table.columns) # "None"
            /\ RequiredColumns \subseteq args.table.columns
            /\ ret.df = <<>>)
              => ret.exception \notin {"none", FormatError}

\* Every load of a source without a required column, or without a valid
\* row, raises.
C14_MissingColumnRaises ==
    called = "load_prices" =>
        /\ (date_col_of(args.table.columns) = "None"
                \/ ~(RequiredColumns \subseteq args.table.columns))
              => ret.exception # "none"
        /\ ret.exception = "none" <=> ret.df # <<>>

----------------------------------------------------------------------------
(* Fetching fresh data (data_updater.extrae_datos_yf and its caller)       *)
(*                                                                         *)
(* ret records the transport in use, what the provider did (cause) and     *)
(* the value extrae_datos_yf returns.                                      *)

MaxTickers == 3

Tickers == 1..MaxTickers

\* A table of n rows as ticker_obj.history returns it (n = 0: empty).
History(n) == [kind |-> "DataFrame", rows |-> n]

None == [kind |-> "None", rows |-> 0]

Pending(transport) ==
    [transport |-> transport, cause |-> "pending", value |-> None, proceeds |-> FALSE]

InitFetch ==
    /\ SessionsAtRest
    /\ called = "none"
    /\ ret = <<>>
    /\ \E ticker \in Tickers, hora \in BOOLEAN : args = [ticker |-> ticker, hora |-> hora]

\* actualizar_datos_parquet: datos_nuevos = extrae_datos_yf(ticker, hora)
CallExtrae ==
    /\ called = "none"
    /\ called' = "primary"
    /\ ret' = Pending("yfinance")
    /\ UNCHANGED args
    /\ UNCHANGED refreshVars

\* The result of one try block once extractor has answered with a table.
Answer(transport, n) ==
    [transport |-> transport,
     cause |-> IF n = 0 THEN "empty" ELSE "table",
     value |-> IF n = 0 THEN None ELSE History(n),
     proceeds |-> FALSE]

\* The outer try: the provider answers with a table (possibly empty), or
\* the request raises YFRateLimitError, or it raises something else.
PrimaryFetch ==
    /\ called = "primary"
    /\ \/ \E n \in 0..NChunks :
             /\ ret' = Answer("yfinance", n)
             /\ called' = "returned"
       \/ /\ ret' = Pending("curl_cffi")
          /\ called' = "fallback"
       \/ /\ ret' = [Pending("yfinance") EXCEPT !.cause = "raised"]
          /\ called' = "returned"
    /\ UNCHANGED args
    /\ UNCHANGED refreshVars

\* The except YFRateLimitError block: curl_cffi cannot be imported, or the
\* second request answers with a table (possibly empty), or it raises.
FallbackFetch ==
    /\ called = "fallback"
    /\ called' = "returned"
    /\ \/ ret' = [Pending("curl_cffi") EXCEPT !.cause = "import_error"]
       \/ \E n \in 0..NChunks : ret' = Answer("curl_cffi", n)
       \/ ret' = [Pending("curl_cffi") EXCEPT !.cause = "fallback_raised"]
    /\ UNCHANGED args
    /\ UNCHANGED refreshVars

\* actualizar_datos_parquet: if datos_nuevos is None or datos_nuevos.empty:
\* return False
CallerChecks ==
    /\ called = "returned"
    /\ called' = "checked"
    /\ ret' = [ret EXCEPT !.proceeds = (ret.value # None /\ ret.value.rows # 0)]
    /\ UNCHANGED args
    /\ UNCHANGED refreshVars

NextFetch == CallExtrae \/ PrimaryFetch \/ FallbackFetch \/ CallerChecks

SpecFetch == InitFetch /\ [][NextFetch]_vars

(* Claim C16 *)

HasReturned == called \in {"returned", "checked"}

Unavailable == ret.cause \in {"raised", "import_error", "fallback_raised"}

\* What extrae_datos_yf returns when the provider is unavailable.
UnavailableValue == None

\* C16: extrae_datos_yf goes to the alternate transport when the primary
\* fetch is rate-limited, and its return value tells 'provider unavailable'
\* from 'provider answered with an empty table': the value returned for an
\* empty table is not the value returned when the provider is unavailable.
C16_UnavailableDistinctFromEmpty ==
    HasReturned =>
        /\ Unavailable => ret.value = UnavailableValue
        /\ ret.cause = "empty" => ret.value # UnavailableValue

\* The part that holds: a value comes back only when the provider gave a
\* table with rows, from either transport, and the caller goes on only
\* then.
C16_ValueOnlyWithRows ==
    /\ HasReturned => (ret.value # None <=> ret.cause = "table")
    /\ called = "checked" => (ret.proceeds <=> ret.cause = "table")
    /\ called = "fallback" => ret.transport = "curl_cffi"

====
